---- MODULE Spec2Model ----
(***************************************************************************)
(* A model of bigcache: the byte queue of src/queue/bytes_queue.go and the *)
(* sharded cache of src/bigcache.go.  Byte slices are sequences of bytes;  *)
(* Go's index i of a slice is index i + 1 of the sequence.  A Go panic     *)
(* (slice bounds out of range, make with a negative length, division by    *)
(* zero) is the outcome panic = TRUE of the operator that models the call. *)
(***************************************************************************)
EXTENDS Integers, Sequences, FiniteSets, TLC

VARIABLES
    \* --- a BytesQueue used on its own (SpecQueue)
    queue,      \* the BytesQueue struct
    qstatus,    \* "ok", or "panic" once a call has panicked
    qret,       \* what the last call returned
    qops,       \* number of Push, Pop and Clear calls so far
    pushed,     \* history: <<[index, data]>> of every Push, in call order
    popped,     \* history: <<[data, filler, index, after]>> of every successful Pop, in
                \* call order: the blob, whether growth wrote it, the head it was at,
                \* and the number of Pushes made before it
    fillers,    \* history: the indexes at which growth wrote an empty blob
    qclears,    \* history: number of Clear calls so far
    \* --- a BigCache used by one caller at a time (Spec)
    status,     \* "new" before newBigCache, then "ready", "error" or "panic"
    config,     \* the Config given to newBigCache
    cache,      \* the BigCache struct
    clock,      \* the clock's epoch(), in seconds
    ret,        \* the last Set or Clear call
    sets,       \* number of Set calls so far
    clears,     \* number of Clear calls so far
    last,       \* history: for each key, its most recent Set
    \* --- a BigCache used by concurrent callers (SpecConc)
    procs,      \* for each goroutine, the call it is in and its locals
    locks,      \* for each shard, the state of its sync.RWMutex
    calls,      \* number of calls started so far
    committed   \* history: what Get(k) returned when k's shard was last unlocked

qvars == <<queue, qstatus, qret, qops, pushed, popped, fillers, qclears>>

cvars == <<status, config, cache, clock, ret, sets, clears, last>>

pvars == <<procs, locks, calls, committed>>

vars == <<qvars, cvars, pvars>>

\* ---------------------------------------------------------------- bytes

Min(a, b) == IF a < b THEN a ELSE b

Max(a, b) == IF a > b THEN a ELSE b

\* make([]byte, n), n >= 0
Zeros(n) == SubSeq([i \in 1..n |-> 0], 1, n)

\* s[from:to] of a Go slice (callers check the bounds first)
Slice(s, from, to) == SubSeq(s, from + 1, to)

\* the bytes of dst with src written over them from Go index at on
\* (at + len(src) <= len(dst))
Overwrite(dst, at, src) ==
    SubSeq(dst, 1, at) \o src \o SubSeq(dst, at + Len(src) + 1, Len(dst))

\* binary.LittleEndian.PutUint32 / PutUint64 / PutUint16 of a value below 2^24
LittleEndian(n, width) ==
    SubSeq(<<n % 256, (n \div 256) % 256, (n \div 65536) % 256>>
               \o Zeros(width), 1, width)

\* binary.LittleEndian.Uint32 / Uint64 / Uint16 of bytes whose value is below 2^31
RECURSIVE FromLittleEndian(_)
FromLittleEndian(b) ==
    IF Len(b) = 0 THEN 0
    ELSE IF \A i \in 1..Len(b) : b[i] = 0 THEN 0
    ELSE b[1] + 256 * FromLittleEndian(Tail(b))

\* ---------------------------------------------------------- bytes queue

headerEntrySize == 4

leftMarginIndex == 1

minimumEmptyBlobSize == 32 + headerEntrySize

NewBytesQueue(initialCapacity) ==
    [array |-> Zeros(initialCapacity), capacity |-> initialCapacity,
     head |-> leftMarginIndex, tail |-> leftMarginIndex, count |-> 0,
     rightMargin |-> leftMarginIndex]

availableSpaceAfterTail(q) ==
    IF q.tail >= q.head THEN q.capacity - q.tail
    ELSE q.head - q.tail - minimumEmptyBlobSize

availableSpaceBeforeHead(q) ==
    IF q.tail >= q.head THEN q.head - leftMarginIndex - minimumEmptyBlobSize
    ELSE q.head - q.tail - minimumEmptyBlobSize

\* q.tail += copy(q.array[q.tail:], data[:len]): Go's copy moves
\* min(len(dst), len(src)) bytes; q.array[q.tail:] panics when tail > len(array)
copy(q, data, len) ==
    IF q.tail > Len(q.array) \/ len > Len(data)
    THEN [q |-> q, panic |-> TRUE]
    ELSE LET n == Min(Len(q.array) - q.tail, len)
         IN  [q |-> [q EXCEPT !.array = Overwrite(q.array, q.tail, SubSeq(data, 1, n)),
                              !.tail = q.tail + n],
              panic |-> FALSE]

push(q, data, len) ==
    LET h == copy(q, LittleEndian(len, headerEntrySize), headerEntrySize)
        d == copy(h.q, data, len)
    IN  IF h.panic \/ d.panic THEN [q |-> q, panic |-> TRUE]
        ELSE [q |-> [d.q EXCEPT !.rightMargin = IF d.q.tail > d.q.head THEN d.q.tail
                                                 ELSE d.q.rightMargin,
                                !.count = d.q.count + 1],
              panic |-> FALSE]

allocateAdditionalMemory(q, minimum) ==
    LET cap1 == IF q.capacity < minimum THEN q.capacity + minimum ELSE q.capacity
        cap2 == cap1 * 2
        fresh == Zeros(cap2)
        q1 == [q EXCEPT !.capacity = cap2, !.array = fresh]
    IN  IF leftMarginIndex # q.rightMargin
        THEN IF q.rightMargin > Len(q.array) THEN [q |-> q, panic |-> TRUE]
             ELSE
             LET n == Min(cap2, q.rightMargin)
                 q2 == [q1 EXCEPT !.array = Overwrite(fresh, 0, SubSeq(q.array, 1, n))]
             IN  IF q2.tail < q2.head
                 THEN LET emptyBlobLen == q2.head - q2.tail - headerEntrySize
                      IN  IF emptyBlobLen < 0 THEN [q |-> q, panic |-> TRUE]
                          ELSE LET p == push(q2, Zeros(emptyBlobLen), emptyBlobLen)
                               IN  IF p.panic THEN [q |-> q, panic |-> TRUE]
                                   ELSE [q |-> [p.q EXCEPT !.head = leftMarginIndex,
                                                           !.tail = p.q.rightMargin],
                                         panic |-> FALSE]
                 ELSE [q |-> q2, panic |-> FALSE]
        ELSE [q |-> q1, panic |-> FALSE]

\* BytesQueuePush with a fault: the tail wraps to 0, not to the left margin
BytesQueuePushWrapsToZero(q, data) ==
    LET dataLen == Len(data)
        a == IF availableSpaceAfterTail(q) < dataLen + headerEntrySize
             THEN IF availableSpaceBeforeHead(q) >= dataLen + headerEntrySize
                  THEN [q |-> [q EXCEPT !.tail = 0], panic |-> FALSE]
                  ELSE allocateAdditionalMemory(q, dataLen)
             ELSE [q |-> q, panic |-> FALSE]
        index == a.q.tail
        p == push(a.q, data, dataLen)
    IN  IF a.panic \/ p.panic THEN [q |-> q, index |-> 0, panic |-> TRUE]
        ELSE [q |-> p.q, index |-> index, panic |-> FALSE]

BytesQueuePush(q, data) ==
    LET dataLen == Len(data)
        a == IF availableSpaceAfterTail(q) < dataLen + headerEntrySize
             THEN IF availableSpaceBeforeHead(q) >= dataLen + headerEntrySize
                  THEN [q |-> [q EXCEPT !.tail = leftMarginIndex], panic |-> FALSE]
                  ELSE allocateAdditionalMemory(q, dataLen)
             ELSE [q |-> q, panic |-> FALSE]
        index == a.q.tail
        p == push(a.q, data, dataLen)
    IN  IF a.panic \/ p.panic THEN [q |-> q, index |-> 0, panic |-> TRUE]
        ELSE [q |-> p.q, index |-> index, panic |-> FALSE]

\* q.array[index : index+4] and q.array[index+4 : index+4+blockSize]
peek(q, index) ==
    IF index + headerEntrySize > Len(q.array)
    THEN [data |-> <<>>, size |-> 0, panic |-> TRUE]
    ELSE LET blockSize == FromLittleEndian(Slice(q.array, index, index + headerEntrySize))
         IN  IF index + headerEntrySize + blockSize > Len(q.array)
             THEN [data |-> <<>>, size |-> 0, panic |-> TRUE]
             ELSE [data |-> Slice(q.array, index + headerEntrySize,
                                  index + headerEntrySize + blockSize),
                   size |-> blockSize, panic |-> FALSE]

BytesQueuePop(q) ==
    IF q.count = 0
    THEN [q |-> q, data |-> <<>>, err |-> "Empty queue", panic |-> FALSE]
    ELSE LET e == peek(q, q.head)
             h == q.head + headerEntrySize + e.size
             q1 == [q EXCEPT !.head = h, !.count = q.count - 1]
             q2 == IF h = q.rightMargin
                   THEN LET t == IF q1.tail = q1.rightMargin THEN leftMarginIndex
                                 ELSE q1.tail
                        IN  [q1 EXCEPT !.head = leftMarginIndex, !.tail = t,
                                       !.rightMargin = t]
                   ELSE q1
         IN  IF e.panic THEN [q |-> q, data |-> <<>>, err |-> "", panic |-> TRUE]
             ELSE [q |-> q2, data |-> e.data, err |-> "", panic |-> FALSE]

\* BytesQueueClear with a fault: the tail is not reset
BytesQueueClearKeepsTail(q) ==
    [q EXCEPT !.head = leftMarginIndex, !.rightMargin = leftMarginIndex, !.count = 0]

BytesQueueClear(q) ==
    [q EXCEPT !.head = leftMarginIndex, !.tail = leftMarginIndex,
              !.rightMargin = leftMarginIndex, !.count = 0]

BytesQueuePeek(q) ==
    IF q.count = 0
    THEN [data |-> <<>>, err |-> "Empty queue", panic |-> FALSE]
    ELSE LET e == peek(q, q.head)
         IN  [data |-> e.data, err |-> "", panic |-> e.panic]

BytesQueueGet(q, index) ==
    IF index <= 0
    THEN [data |-> <<>>, err |-> "Index must be grater than zero. Invalid index.",
          panic |-> FALSE]
    ELSE LET e == peek(q, index)
         IN  [data |-> e.data, err |-> "", panic |-> e.panic]

Capacity(q) == q.capacity

BytesQueueLen(q) == q.count

\* ------------------------------------------------------- entry framing

timestampSizeInBytes == 8

hashSizeInBytes == 8

keySizeInBytes == 2

headersSizeInBytes == timestampSizeInBytes + hashSizeInBytes + keySizeInBytes

wrapEntry(timestamp, hash, key, entry) ==
    LittleEndian(timestamp, timestampSizeInBytes)
        \o LittleEndian(hash, hashSizeInBytes)
        \o LittleEndian(Len(key), keySizeInBytes)
        \o key \o entry

\* each reader panics on a blob too short to hold the field it reads
readTimestampFromEntry(data) ==
    IF Len(data) < timestampSizeInBytes THEN [v |-> 0, panic |-> TRUE]
    ELSE [v |-> FromLittleEndian(Slice(data, 0, timestampSizeInBytes)), panic |-> FALSE]

readHashFromEntry(data) ==
    IF Len(data) < timestampSizeInBytes + hashSizeInBytes THEN [v |-> 0, panic |-> TRUE]
    ELSE [v |-> FromLittleEndian(Slice(data, timestampSizeInBytes,
                                       timestampSizeInBytes + hashSizeInBytes)),
          panic |-> FALSE]

readKeyLength(data) ==
    FromLittleEndian(Slice(data, timestampSizeInBytes + hashSizeInBytes, headersSizeInBytes))

readKeyFromEntry(data) ==
    IF Len(data) < headersSizeInBytes THEN [v |-> <<>>, panic |-> TRUE]
    ELSE IF headersSizeInBytes + readKeyLength(data) > Len(data)
         THEN [v |-> <<>>, panic |-> TRUE]
         ELSE [v |-> Slice(data, headersSizeInBytes, headersSizeInBytes + readKeyLength(data)),
               panic |-> FALSE]

readEntry(data) ==
    IF Len(data) < headersSizeInBytes THEN [v |-> <<>>, panic |-> TRUE]
    ELSE IF headersSizeInBytes + readKeyLength(data) > Len(data)
         THEN [v |-> <<>>, panic |-> TRUE]
         ELSE [v |-> Slice(data, headersSizeInBytes + readKeyLength(data), Len(data)),
               panic |-> FALSE]

\* resetKeyFromEntry on the blob at index: the blob is a slice of the
\* queue's array, so the hash field is zeroed in the array itself
resetKeyFromEntry(q, index, data) ==
    IF Len(data) < timestampSizeInBytes + hashSizeInBytes THEN [q |-> q, panic |-> TRUE]
    ELSE LET from == index + headerEntrySize + timestampSizeInBytes
         IN  [q |-> [q EXCEPT !.array = Overwrite(q.array, from, Zeros(hashSizeInBytes))],
              panic |-> FALSE]

\* --------------------------------------------------------------- cache

minimumEntriesInShard == 10

\* a & b of two non-negative integers
RECURSIVE BitAnd(_, _)
BitAnd(a, b) ==
    IF a = 0 \/ b = 0 THEN 0
    ELSE (a % 2) * (b % 2) + 2 * BitAnd(a \div 2, b \div 2)

\* the width of int and of uint64 in the model
IntBits == 16

Pow2(n) == 2 ^ n

\* the two's complement bit pattern of a signed integer
Unsigned(n) == n % Pow2(IntBits)

isPowerOfTwo(number) == BitAnd(Unsigned(number), Unsigned(number - 1)) = 0

\* the hashmap of a shard: a function on the hashes it holds; a lookup
\* of a hash it does not hold gives 0
MapGet(m, h) == IF h \in DOMAIN m THEN m[h] ELSE 0

MapPut(m, h, v) == [x \in DOMAIN m \cup {h} |-> IF x = h THEN v ELSE m[x]]

\* delete(hashmap, h) with a fault: the entry stays in the hashmap
MapDeleteKeepsEntry(m, h) == m

MapDelete(m, h) == [x \in DOMAIN m \ {h} |-> m[x]]

EmptyMap == [x \in {} |-> 0]

NoCache ==
    [shards |-> <<>>, lifeWindow |-> 0, shardMask |-> 0, shardSize |-> 0]

\* the outcome of newBigCache(config, clock): a cache, an error or a panic
newBigCache(cfg) ==
    IF ~isPowerOfTwo(cfg.Shards)
    THEN [status |-> "error", cache |-> NoCache]
    ELSE IF cfg.Shards < 0                       \* make([]*cacheShard, n), n < 0
    THEN [status |-> "panic", cache |-> NoCache]
    ELSE IF cfg.Shards = 0                       \* MaxEntriesInWindow / 0
    THEN [status |-> "panic", cache |-> NoCache]
    ELSE LET shardSize == Max(cfg.MaxEntriesInWindow \div cfg.Shards, minimumEntriesInShard)
         IN  [status |-> "ready",
              cache |-> [shards |-> [i \in 0..(cfg.Shards - 1) |->
                                        [hashmap |-> EmptyMap,
                                         entries |-> NewBytesQueue(shardSize * cfg.MaxEntrySize)]],
                         lifeWindow |-> cfg.LifeWindow,
                         shardMask |-> Unsigned(cfg.Shards - 1),
                         shardSize |-> shardSize]]

Sum64(cfg, key) == cfg.Hasher[key]

getShard(c, hashedKey) == BitAnd(hashedKey, c.shardMask)

NotFound == [found |-> FALSE, value |-> <<>>, panic |-> FALSE]

\* shardGet with a fault: the key stored in the entry is not compared
shardGetNoKeyCheck(shard, hashedKey, key) ==
    LET itemIndex == MapGet(shard.hashmap, hashedKey)
        wrappedEntry == BytesQueueGet(shard.entries, itemIndex)
        value == readEntry(wrappedEntry.data)
    IN  IF itemIndex = 0 THEN NotFound
        ELSE IF wrappedEntry.panic
        THEN [found |-> FALSE, value |-> <<>>, panic |-> TRUE]
        ELSE [found |-> TRUE, value |-> value.v, panic |-> value.panic]

\* BigCache.Get from the read of the queue on: the entry at itemIndex is
\* fetched and its key compared with the key asked for
shardGetAt(shard, itemIndex, key) ==
    LET wrappedEntry == BytesQueueGet(shard.entries, itemIndex)
        entryKey == readKeyFromEntry(wrappedEntry.data)
        value == readEntry(wrappedEntry.data)
    IN  IF itemIndex = 0 THEN NotFound
        ELSE IF wrappedEntry.panic \/ entryKey.panic
        THEN [found |-> FALSE, value |-> <<>>, panic |-> TRUE]
        ELSE IF key # entryKey.v THEN NotFound
        ELSE [found |-> TRUE, value |-> value.v, panic |-> value.panic]

\* BigCache.Get on one shard
shardGet(shard, hashedKey, key) ==
    shardGetAt(shard, MapGet(shard.hashmap, hashedKey), key)

BigCacheGet(c, cfg, key) ==
    LET hashedKey == Sum64(cfg, key)
    IN  shardGet(c.shards[getShard(c, hashedKey)], hashedKey, key)

\* Set, first step: zero the hash field of the entry the hashmap holds
setResetPrevious(shard, hashedKey) ==
    LET previousIndex == MapGet(shard.hashmap, hashedKey)
        previousEntry == BytesQueueGet(shard.entries, previousIndex)
        r == resetKeyFromEntry(shard.entries, previousIndex, previousEntry.data)
    IN  IF previousIndex = 0 THEN [shard |-> shard, panic |-> FALSE]
        ELSE IF previousEntry.panic \/ r.panic THEN [shard |-> shard, panic |-> TRUE]
        ELSE [shard |-> [shard EXCEPT !.entries = r.q], panic |-> FALSE]

\* onEvict with a fault: an entry as old as the life window is evicted
onEvictAtThreshold(oldestTimestamp, currentTimestamp, lifeWindow) ==
    IF currentTimestamp >= oldestTimestamp
    THEN currentTimestamp - oldestTimestamp >= lifeWindow
    ELSE TRUE

\* onEvict with a fault: the age threshold is off by one second
onEvictOneSecondLate(oldestTimestamp, currentTimestamp, lifeWindow) ==
    IF currentTimestamp >= oldestTimestamp
    THEN currentTimestamp - oldestTimestamp > lifeWindow + 1
    ELSE TRUE

\* uint64 subtraction: a timestamp after now wraps around to a huge age
onEvict(oldestTimestamp, currentTimestamp, lifeWindow) ==
    IF currentTimestamp >= oldestTimestamp
    THEN currentTimestamp - oldestTimestamp > lifeWindow
    ELSE TRUE

\* Set, second step: peek the oldest entry; pop it and delete its hash
\* from the hashmap when it is older than the life window
setEvictOldest(shard, currentTimestamp, lifeWindow) ==
    LET oldestEntry == BytesQueuePeek(shard.entries)
        ts == readTimestampFromEntry(oldestEntry.data)
        popRes == BytesQueuePop(shard.entries)
        hash == readHashFromEntry(oldestEntry.data)
        keep == [shard |-> shard, evicted |-> FALSE, index |-> 0, panic |-> FALSE]
    IN  IF oldestEntry.err # "" THEN keep
        ELSE IF oldestEntry.panic \/ ts.panic THEN [keep EXCEPT !.panic = TRUE]
        ELSE IF ~onEvict(ts.v, currentTimestamp, lifeWindow) THEN keep
        ELSE IF popRes.panic \/ hash.panic THEN [keep EXCEPT !.panic = TRUE]
        ELSE [shard |-> [hashmap |-> MapDelete(shard.hashmap, hash.v),
                         entries |-> popRes.q],
              evicted |-> TRUE, index |-> shard.entries.head, panic |-> FALSE]

\* Set, third step: wrap the entry and push it
setPush(shard, currentTimestamp, hashedKey, key, entry) ==
    LET w == wrapEntry(currentTimestamp, hashedKey, key, entry)
        r == BytesQueuePush(shard.entries, w)
    IN  IF r.panic THEN [shard |-> shard, index |-> 0, panic |-> TRUE]
        ELSE [shard |-> [shard EXCEPT !.entries = r.q], index |-> r.index,
              panic |-> FALSE]

\* Set, last step: the hashmap takes the index Push returned
setStore(shard, hashedKey, index) ==
    [shard EXCEPT !.hashmap = MapPut(@, hashedKey, index)]

\* the hashmap store that follows a Push that returned
setStored(r, hashedKey) ==
    IF r.panic THEN r ELSE [r EXCEPT !.shard = setStore(@, hashedKey, r.index)]

\* the third and the last step of Set
setPushEntry(shard, currentTimestamp, hashedKey, key, entry) ==
    setStored(setPush(shard, currentTimestamp, hashedKey, key, entry), hashedKey)

\* BigCache.Set on one shard
shardSet(shard, currentTimestamp, lifeWindow, hashedKey, key, entry) ==
    LET a == setResetPrevious(shard, hashedKey)
        b == setEvictOldest(a.shard, currentTimestamp, lifeWindow)
        c == setPushEntry(b.shard, currentTimestamp, hashedKey, key, entry)
    IN  IF a.panic \/ b.panic \/ c.panic
        THEN [shard |-> shard, evicted |-> FALSE, evictedIndex |-> 0, index |-> 0,
              panic |-> TRUE]
        ELSE [shard |-> c.shard, evicted |-> b.evicted, evictedIndex |-> b.index,
              index |-> c.index, panic |-> FALSE]

\* BigCache.Clear on one shard
shardClear(shard) ==
    [hashmap |-> EmptyMap, entries |-> BytesQueueClear(shard.entries)]

\* getKeyAndValue with a fault: the handle 1 is taken for no entry
getKeyAndValueFromTwo(shard, hashedKey) ==
    LET itemIndex == MapGet(shard.hashmap, hashedKey)
        wrappedEntry == BytesQueueGet(shard.entries, itemIndex)
        entryKey == readKeyFromEntry(wrappedEntry.data)
        value == readEntry(wrappedEntry.data)
        none == [err |-> TRUE, key |-> <<>>, value |-> <<>>, panic |-> FALSE]
    IN  IF itemIndex <= 1 THEN none
        ELSE IF wrappedEntry.panic \/ entryKey.panic \/ value.panic
        THEN [none EXCEPT !.panic = TRUE]
        ELSE [err |-> FALSE, key |-> entryKey.v, value |-> value.v, panic |-> FALSE]

\* what Iterate hands to accept for one hash, or err when the lookup fails
getKeyAndValue(shard, hashedKey) ==
    LET itemIndex == MapGet(shard.hashmap, hashedKey)
        wrappedEntry == BytesQueueGet(shard.entries, itemIndex)
        entryKey == readKeyFromEntry(wrappedEntry.data)
        value == readEntry(wrappedEntry.data)
        none == [err |-> TRUE, key |-> <<>>, value |-> <<>>, panic |-> FALSE]
    IN  IF itemIndex = 0 THEN none
        ELSE IF wrappedEntry.panic \/ entryKey.panic \/ value.panic
        THEN [none EXCEPT !.panic = TRUE]
        ELSE [err |-> FALSE, key |-> entryKey.v, value |-> value.v, panic |-> FALSE]

\* BigCache.Iterate: for every shard and every hash of its hashmap, the
\* shard, the hash and what getKeyAndValue gives for them
IterateLookups(c) ==
    UNION {{[shard |-> i, hash |-> h, r |-> getKeyAndValue(c.shards[i], h)] :
                h \in DOMAIN c.shards[i].hashmap} : i \in DOMAIN c.shards}

\* the calls of accept that Iterate makes: the lookups without error
IterateAccepts(c) == {l \in IterateLookups(c) : ~l.r.err /\ ~l.r.panic}

RECURSIVE SumOver(_, _)
SumOver(f, S) ==
    IF S = {} THEN 0
    ELSE LET x == CHOOSE y \in S : TRUE IN f[x] + SumOver(f, S \ {x})

Size(c) ==
    SumOver([i \in DOMAIN c.shards |-> Cardinality(DOMAIN c.shards[i].hashmap)],
            DOMAIN c.shards)

\* ------------------------------------------- the cache, one caller

MaxCapacity == 260

MaxShards == 2

MaxSets == 6

MaxClock == 2

MaxClears == 1

KeyA == <<65>>

KeyB == <<66>>

Keys == {KeyA, KeyB}

\* the hashers a Config may carry.  Under the first the hashes differ, one
\* of them is 0, and with two shards the keys are in different shards;
\* under the second the two keys collide
Hashers ==
    { [k \in Keys |-> IF k = KeyA THEN 0 ELSE 1],
      [k \in Keys |-> 3] }

Configs ==
    [Shards : (0 - MaxShards)..MaxShards, LifeWindow : {0}, MaxEntriesInWindow : {10},
     MaxEntrySize : {13}, Hasher : Hashers]

ValueLen == 17

\* the value of the n-th Set: ValueLen bytes, each of them the digit n
Value(n) == SubSeq([i \in 1..ValueLen |-> 48 + n], 1, ValueLen)

\* history of a key: whether it was ever Set and, for its most recent Set,
\* the value, the clock, the shard and the index Push returned, whether that
\* blob has since been popped (or cleared), and whether a later Set of
\* another key with the same hash has superseded it
NeverSet ==
    [set |-> FALSE, value |-> <<>>, time |-> 0, shard |-> 0, index |-> 0,
     popped |-> FALSE, superseded |-> FALSE]

NoCall ==
    [op |-> "none", key |-> <<>>, entry |-> <<>>, shard |-> 0, evicted |-> FALSE,
     evictedIndex |-> 0]

QueueIdle ==
    /\ queue = NewBytesQueue(0)
    /\ qstatus = "ok"
    /\ qret = [op |-> "NewBytesQueue", index |-> 0, err |-> ""]
    /\ qops = 0
    /\ pushed = <<>>
    /\ popped = <<>>
    /\ fillers = {}
    /\ qclears = 0

CacheIdle ==
    /\ status = "new"
    /\ config = [Shards |-> 1, LifeWindow |-> 0, MaxEntriesInWindow |-> 10,
                 MaxEntrySize |-> 13, Hasher |-> [k \in Keys |-> 3]]
    /\ cache = NoCache
    /\ clock = 0
    /\ ret = NoCall
    /\ sets = 0
    /\ clears = 0
    /\ last = [k \in Keys |-> NeverSet]

ConcIdle ==
    /\ procs = <<>>
    /\ locks = <<>>
    /\ calls = 0
    /\ committed = <<>>

Init ==
    /\ QueueIdle
    /\ ConcIdle
    /\ status = "new"
    /\ config \in Configs
    /\ cache = NoCache
    /\ clock = 0
    /\ ret = NoCall
    /\ sets = 0
    /\ clears = 0
    /\ last = [k \in Keys |-> NeverSet]

New ==
    /\ status = "new"
    /\ \E r \in {newBigCache(config)} : status' = r.status /\ cache' = r.cache
    /\ UNCHANGED <<config, clock, ret, sets, clears, last>>
    /\ UNCHANGED <<qvars, pvars>>

\* the clock is monotonic: epoch() never goes back
Tick ==
    /\ status = "ready"
    /\ clock < MaxClock
    /\ clock' = clock + 1
    /\ UNCHANGED <<status, config, cache, ret, sets, clears, last>>
    /\ UNCHANGED <<qvars, pvars>>

Set ==
    /\ status = "ready" /\ sets < MaxSets
    /\ \E key \in Keys :
         LET entry == Value(sets + 1)
             hashedKey == Sum64(config, key)
             s == getShard(cache, hashedKey)
         IN  \E r \in {shardSet(cache.shards[s], clock, cache.lifeWindow, hashedKey,
                                  key, entry)} :
             /\ r.shard.entries.capacity <= MaxCapacity
             /\ status' = IF r.panic THEN "panic" ELSE "ready"
             /\ cache' = [cache EXCEPT !.shards[s] = r.shard]
             /\ ret' = [op |-> "Set", key |-> key, entry |-> entry, shard |-> s,
                        evicted |-> r.evicted, evictedIndex |-> r.evictedIndex]
             /\ last' = IF r.panic THEN last ELSE
                    [k \in Keys |->
                       IF k = key
                       THEN [set |-> TRUE, value |-> entry, time |-> clock, shard |-> s,
                             index |-> r.index, popped |-> FALSE, superseded |-> FALSE]
                       ELSE [last[k] EXCEPT
                               !.popped = @ \/ (/\ r.evicted
                                                /\ last[k].set
                                                /\ last[k].shard = s
                                                /\ last[k].index = r.evictedIndex),
                               !.superseded = @ \/ (/\ last[k].set
                                                    /\ Sum64(config, k) = hashedKey)]]
    /\ sets' = sets + 1
    /\ UNCHANGED <<config, clock, clears>>
    /\ UNCHANGED <<qvars, pvars>>

\* Get changes nothing unless it panics; what it returns is
\* BigCacheGet(cache, config, key)
Get ==
    /\ status = "ready"
    /\ \E key \in Keys :
         status' = IF BigCacheGet(cache, config, key).panic THEN "panic" ELSE "ready"
    /\ UNCHANGED <<config, cache, clock, ret, sets, clears, last>>
    /\ UNCHANGED <<qvars, pvars>>

Clear ==
    /\ status = "ready" /\ clears < MaxClears
    /\ cache' = [cache EXCEPT !.shards = [i \in DOMAIN cache.shards |->
                                             shardClear(cache.shards[i])]]
    /\ ret' = [NoCall EXCEPT !.op = "Clear"]
    /\ last' = [k \in Keys |-> [last[k] EXCEPT !.popped = last[k].set]]
    /\ clears' = clears + 1
    /\ UNCHANGED <<status, config, clock, sets>>
    /\ UNCHANGED <<qvars, pvars>>

\* Iterate changes nothing unless it panics; the calls of accept it makes
\* are IterateAccepts(cache)
Iterate ==
    /\ status = "ready"
    /\ status' = IF \E l \in IterateLookups(cache) : l.r.panic THEN "panic" ELSE "ready"
    /\ UNCHANGED <<config, cache, clock, ret, sets, clears, last>>
    /\ UNCHANGED <<qvars, pvars>>

Next == New \/ Tick \/ Set \/ Get \/ Clear \/ Iterate

Spec == Init /\ [][Next]_vars

\* ------------------------------------------------ claims on the cache

\* what Get(key) returns in the current state
GetNow(key) == BigCacheGet(cache, config, key)

\* the most recent Set of key has not been superseded by a Set of a key with
\* the same hash, and its blob has been neither popped nor cleared
Current(key) == last[key].set /\ ~last[key].popped /\ ~last[key].superseded

ShardOf(key) == getShard(cache, Sum64(config, key))

\* C1: after Set(k, v), as long as k's entry has been neither popped by
\* eviction nor cleared (and no Set to the same hash came later), Get(k)
\* returns exactly v, whatever k hashes to (0 included) and whatever Sets of
\* other keys came in between.
C1_SetGetRoundTrip ==
    status = "ready" =>
        \A k \in Keys :
            Current(k) => GetNow(k) = [found |-> TRUE, value |-> last[k].value,
                                       panic |-> FALSE]

\* the hashes that have a current entry
CurrentHashes == {Sum64(config, k) : k \in {x \in Keys : Current(x)}}

\* C5: after any series of Sets, Size() is the number of distinct hashes
\* with a current entry (so an overwritten key counts once), and Get of each
\* key with a current entry returns the value of its most recent Set.
C5_OverwriteAndSize ==
    (status = "ready" /\ clears = 0) =>
        /\ Size(cache) = Cardinality(CurrentHashes)
        /\ \A k \in Keys : Current(k) => /\ GetNow(k).found
                                         /\ GetNow(k).value = last[k].value

\* C6: a successful Get(key) returns the value of a Set of that very key
\* (its most recent one), and a key superseded by a colliding key is not found.
C6_CollisionSafety ==
    status = "ready" =>
        \A k \in Keys :
            /\ GetNow(k).found => last[k].set /\ GetNow(k).value = last[k].value
            /\ (last[k].set /\ last[k].superseded) => ~GetNow(k).found

\* two keys collide, A was Set and then B: Get(A) is NotFound, Get(B) finds
C6_Witness ==
    /\ status = "ready"
    /\ Sum64(config, KeyA) = Sum64(config, KeyB)
    /\ last[KeyA].set /\ last[KeyA].superseded /\ ~last[KeyA].popped
    /\ ~GetNow(KeyA).found
    /\ GetNow(KeyB).found /\ GetNow(KeyB).value = last[KeyB].value

IsPowerOfTwo(n) == \E e \in 0..IntBits : n = 2 ^ e

\* C8: newBigCache returns an error and no cache for every Shards that is
\* not a power of two (0 and the negative ones included), and a cache of
\* Shards shards with shardMask = Shards - 1 for every power of two.
C8_ShardCountValidated ==
    (status # "new" /\ sets = 0 /\ clears = 0) =>
        IF IsPowerOfTwo(config.Shards)
        THEN /\ status = "ready"
             /\ DOMAIN cache.shards = 0..(config.Shards - 1)
             /\ cache.shardMask = config.Shards - 1
        ELSE status = "error" /\ cache = NoCache

\* this step is a call Set(key, ...) that returned
SetStep(key) ==
    sets' = sets + 1 /\ ret'.op = "Set" /\ ret'.key = key /\ status' = "ready"

\* Get(key) returns NotFound in the state after the step
NotFoundNext(key) == ~BigCacheGet(cache', config', key).found

\* k was Set at a time t0 with clock - t0 greater than the life window
Expired(k) == last[k].set /\ clock - last[k].time > cache.lifeWindow

InitialCapacity == Max(config.MaxEntriesInWindow \div config.Shards, minimumEntriesInShard)
                       * config.MaxEntrySize

\* C7: when Clear returns, Size() is 0, Get of every key is NotFound, and
\* every shard's queue has Len() = 0, head = tail = rightMargin = 1 and the
\* capacity it had; a Set(k, v) that follows the Clear makes Get(k) return v.
C7_Clear ==
    [][/\ (status = "ready" /\ clears' = clears + 1) =>
            /\ Size(cache') = 0
            /\ \A k \in Keys : NotFoundNext(k)
            /\ \A i \in DOMAIN cache.shards :
                  /\ BytesQueueLen(cache'.shards[i].entries) = 0
                  /\ cache'.shards[i].entries.head = leftMarginIndex
                  /\ cache'.shards[i].entries.tail = leftMarginIndex
                  /\ cache'.shards[i].entries.rightMargin = leftMarginIndex
                  /\ Capacity(cache'.shards[i].entries) = Capacity(cache.shards[i].entries)
       /\ (status = "ready" /\ ret.op = "Clear" /\ sets' = sets + 1) =>
            /\ status' = "ready"
            /\ BigCacheGet(cache', config', ret'.key)
                   = [found |-> TRUE, value |-> ret'.entry, panic |-> FALSE]]_vars

\* Clear has just returned on a cache that held entries in a grown queue
C7_Witness ==
    /\ status = "ready" /\ ret.op = "Clear"
    /\ \E k \in Keys : last[k].set
    /\ \E i \in DOMAIN cache.shards : Capacity(cache.shards[i].entries) > InitialCapacity
    /\ Size(cache) = 0

\* ------------------------------------------- the queue on its own

MaxQueueOps == 6

InitialCapacities == {1, 55}

DataLens == {0, 3, 40}

\* the blob of the n-th Push: len bytes, each of them n
Blob(n, len) == SubSeq([i \in 1..len |-> n], 1, len)

QueueInit ==
    /\ CacheIdle
    /\ ConcIdle
    /\ \E c \in InitialCapacities : queue = NewBytesQueue(c)
    /\ qstatus = "ok"
    /\ qret = [op |-> "NewBytesQueue", index |-> 0, err |-> ""]
    /\ qops = 0
    /\ pushed = <<>>
    /\ popped = <<>>
    /\ fillers = {}
    /\ qclears = 0

\* growth writes an empty blob at tail exactly when Push grows a wrapped queue
GrowsWrapped(q, dataLen) ==
    /\ availableSpaceAfterTail(q) < dataLen + headerEntrySize
    /\ availableSpaceBeforeHead(q) < dataLen + headerEntrySize
    /\ leftMarginIndex # q.rightMargin
    /\ q.tail < q.head

QPush ==
    /\ qstatus = "ok" /\ qops < MaxQueueOps
    /\ \E len \in DataLens :
         \E r \in {BytesQueuePush(queue, Blob(Len(pushed) + 1, len))} :
             /\ r.q.capacity <= MaxCapacity
             /\ queue' = r.q
             /\ qstatus' = IF r.panic THEN "panic" ELSE "ok"
             /\ qret' = [op |-> "Push", index |-> r.index, err |-> ""]
             /\ pushed' = Append(pushed, [index |-> r.index, len |-> len])
             /\ fillers' = IF GrowsWrapped(queue, len) /\ ~r.panic
                           THEN fillers \cup {queue.tail} ELSE fillers
    /\ qops' = qops + 1
    /\ UNCHANGED <<popped, qclears>>
    /\ UNCHANGED <<cvars, pvars>>

QPop ==
    /\ qstatus = "ok" /\ qops < MaxQueueOps
    /\ \E r \in {BytesQueuePop(queue)} :
           /\ queue' = r.q
           /\ qstatus' = IF r.panic THEN "panic" ELSE "ok"
           /\ qret' = [op |-> "Pop", index |-> 0, err |-> r.err]
           /\ popped' = IF r.panic \/ r.err # "" THEN popped
                         ELSE Append(popped, [data |-> r.data,
                                              filler |-> queue.head \in fillers,
                                              index |-> queue.head,
                                              after |-> Len(pushed)])
           /\ fillers' = IF r.panic \/ r.err # "" THEN fillers
                          ELSE fillers \ {queue.head}
    /\ qops' = qops + 1
    /\ UNCHANGED <<pushed, qclears>>
    /\ UNCHANGED <<cvars, pvars>>

\* Peek and Get change nothing unless they panic; what they return is
\* BytesQueuePeek(queue) and BytesQueueGet(queue, index)
QPeek ==
    /\ qstatus = "ok"
    /\ qstatus' = IF BytesQueuePeek(queue).panic THEN "panic" ELSE "ok"
    /\ UNCHANGED <<queue, qret, qops, pushed, popped, fillers, qclears>>
    /\ UNCHANGED <<cvars, pvars>>

QGet ==
    /\ qstatus = "ok"
    /\ \E index \in {-1, 0} \cup {pushed[i].index : i \in 1..Len(pushed)} :
         qstatus' = IF BytesQueueGet(queue, index).panic THEN "panic" ELSE "ok"
    /\ UNCHANGED <<queue, qret, qops, pushed, popped, fillers, qclears>>
    /\ UNCHANGED <<cvars, pvars>>

QClear ==
    /\ qstatus = "ok" /\ qops < MaxQueueOps
    /\ queue' = BytesQueueClear(queue)
    /\ qret' = [op |-> "Clear", index |-> 0, err |-> ""]
    /\ qops' = qops + 1
    /\ fillers' = {}
    /\ qclears' = qclears + 1
    /\ UNCHANGED <<qstatus, pushed, popped>>
    /\ UNCHANGED <<cvars, pvars>>

QueueNext == QPush \/ QPop \/ QPeek \/ QGet \/ QClear

SpecQueue == QueueInit /\ [][QueueNext]_vars

\* ------------------------------------------------ claims on the queue

\* only Push has been called so far
OnlyPushes == qops = Len(pushed)

\* Get(h) returns exactly the bytes of the i-th Push
GetReturnsPushed(i) ==
    LET r == BytesQueueGet(queue, pushed[i].index)
    IN  ~r.panic /\ r.err = "" /\ r.data = Blob(i, pushed[i].len)

\* C2: in a run of Push calls only, from any initial capacity, no call
\* panics and Get(h) of every handle h returned so far gives back exactly
\* the bytes of its Push, also after later Pushes grew the queue.
C2_HandleStabilityUnderGrowth ==
    OnlyPushes => /\ qstatus = "ok"
                  /\ \A i \in 1..Len(pushed) : GetReturnsPushed(i)

\* the blobs Pop returned, without the empty blobs written by growth
PoppedReal == SelectSeq(popped, LAMBDA e : ~e.filler)

\* C3: in a run of Push and Pop calls, the blobs returned by Pop, fillers
\* removed, are the blobs given to Push, in the order of the Pushes.
C3_FifoOrder ==
    qclears = 0 =>
        /\ Len(PoppedReal) <= Len(pushed)
        /\ \A i \in 1..Len(PoppedReal) :
               PoppedReal[i].data = Blob(i, pushed[i].len)

\* ------------------------------------- the cache, concurrent callers

MaxProcs == 3

MaxCalls == 3

Procs == 1..MaxProcs

\* the keys are in different shards when there are two
ConcConfigs ==
    { [Shards |-> n, LifeWindow |-> 0, MaxEntriesInWindow |-> 10, MaxEntrySize |-> 13,
       Hasher |-> [k \in Keys |-> IF k = KeyA THEN 2 ELSE 1]] : n \in {1, 2} }

\* a goroutine outside any call
Idle ==
    [op |-> "idle", pc |-> "idle", key |-> <<>>, entry |-> <<>>, hashedKey |-> 0,
     shard |-> 0, now |-> 0, itemIndex |-> 0, wrote |-> FALSE, visited |-> {},
     allowed |-> {}, result |-> NotFound]

\* sync.RWMutex: the goroutine holding the write lock (0: none) and the
\* goroutines holding the read lock
Unlocked == [writer |-> 0, readers |-> {}]

\* CanRLock with a fault: a reader does not wait for the writer
CanRLockDespiteWriter(l) == TRUE

\* RLock blocks while a writer holds the lock
CanRLock(l) == l.writer = 0

\* Lock blocks while a writer or a reader holds the lock
CanLock(l) == l.writer = 0 /\ l.readers = {}

\* Unlock with a fault: the write lock stays taken
UnlockKeepsWriter(l) == l

\* Unlock gives the write lock back
Unlock(l) == [l EXCEPT !.writer = 0]

ConcInit ==
    /\ QueueIdle
    /\ status = "ready"
    /\ config \in ConcConfigs
    /\ cache = newBigCache(config).cache
    /\ clock = 0
    /\ ret = NoCall
    /\ sets = 0
    /\ clears = 0
    /\ last = [k \in Keys |-> NeverSet]
    /\ procs = [p \in Procs |-> Idle]
    /\ locks = [i \in 0..(config.Shards - 1) |-> Unlocked]
    /\ calls = 0
    /\ committed = [k \in Keys |-> NotFound]

CanCall(p) == status = "ready" /\ procs[p].pc = "idle" /\ calls < MaxCalls

At(p, op, pc) == status = "ready" /\ procs[p].op = op /\ procs[p].pc = pc

\* the write lock of shard s is released by p, whose record becomes rec:
\* what a Get of each key of the shard returns from now on is noted, and
\* every Get that has not read yet may return it
Commit(p, s, rec) ==
    LET now == [k \in Keys |-> IF ShardOf(k) = s THEN GetNow(k) ELSE committed[k]]
    IN  /\ committed' = now
        /\ procs' = [q \in Procs |->
                       IF q = p THEN rec
                       ELSE IF procs[q].op = "Get" /\ procs[q].pc \in {"rlock", "index", "entry"}
                       THEN [procs[q] EXCEPT !.allowed = @ \cup {now[procs[q].key]}]
                       ELSE procs[q]]

CallGet(p) ==
    /\ CanCall(p)
    /\ \E key \in Keys :
         procs' = [procs EXCEPT ![p] =
                     [Idle EXCEPT !.op = "Get", !.pc = "rlock", !.key = key,
                                  !.hashedKey = Sum64(config, key),
                                  !.shard = ShardOf(key),
                                  !.allowed = {committed[key]}]]
    /\ calls' = calls + 1
    /\ UNCHANGED <<locks, committed, qvars, cvars>>

GetRLock(p) ==
    /\ At(p, "Get", "rlock")
    /\ CanRLock(locks[procs[p].shard])
    /\ locks' = [locks EXCEPT ![procs[p].shard].readers = @ \cup {p}]
    /\ procs' = [procs EXCEPT ![p].pc = "index"]
    /\ UNCHANGED <<calls, committed, qvars, cvars>>

GetIndex(p) ==
    /\ At(p, "Get", "index")
    /\ \E itemIndex \in {MapGet(cache.shards[procs[p].shard].hashmap, procs[p].hashedKey)} :
         procs' = [procs EXCEPT ![p].itemIndex = itemIndex,
                                ![p].pc = IF itemIndex = 0 THEN "runlock" ELSE "entry"]
    /\ UNCHANGED <<locks, calls, committed, qvars, cvars>>

GetEntry(p) ==
    /\ At(p, "Get", "entry")
    /\ \E r \in {shardGetAt(cache.shards[procs[p].shard], procs[p].itemIndex, procs[p].key)} :
         /\ procs' = [procs EXCEPT ![p].result = r, ![p].pc = "runlock"]
         /\ status' = IF r.panic THEN "panic" ELSE "ready"
    /\ UNCHANGED <<locks, calls, committed, qvars>>
    /\ UNCHANGED <<config, cache, clock, ret, sets, clears, last>>

GetRUnlock(p) ==
    /\ At(p, "Get", "runlock")
    /\ locks' = [locks EXCEPT ![procs[p].shard].readers = @ \ {p}]
    /\ procs' = [procs EXCEPT ![p] = Idle]
    /\ UNCHANGED <<calls, committed, qvars, cvars>>

CallSet(p) ==
    /\ CanCall(p)
    /\ \E key \in Keys :
         procs' = [procs EXCEPT ![p] =
                     [Idle EXCEPT !.op = "Set", !.pc = "lock", !.key = key,
                                  !.entry = Value(sets + 1),
                                  !.hashedKey = Sum64(config, key),
                                  !.shard = ShardOf(key)]]
    /\ calls' = calls + 1
    /\ sets' = sets + 1
    /\ UNCHANGED <<locks, committed, qvars>>
    /\ UNCHANGED <<status, config, cache, clock, ret, clears, last>>

SetLock(p) ==
    /\ At(p, "Set", "lock")
    /\ CanLock(locks[procs[p].shard])
    /\ locks' = [locks EXCEPT ![procs[p].shard].writer = p]
    /\ procs' = [procs EXCEPT ![p].pc = "reset"]
    /\ UNCHANGED <<calls, committed, qvars, cvars>>

SetReset(p) ==
    /\ At(p, "Set", "reset")
    /\ \E r \in {setResetPrevious(cache.shards[procs[p].shard], procs[p].hashedKey)} :
         /\ cache' = [cache EXCEPT !.shards[procs[p].shard] = r.shard]
         /\ status' = IF r.panic THEN "panic" ELSE "ready"
         /\ procs' = [procs EXCEPT ![p].now = clock, ![p].pc = "evict",
                                   ![p].wrote = r.shard # cache.shards[procs[p].shard]]
    /\ UNCHANGED <<locks, calls, committed, qvars>>
    /\ UNCHANGED <<config, clock, ret, sets, clears, last>>

SetEvict(p) ==
    /\ At(p, "Set", "evict")
    /\ \E r \in {setEvictOldest(cache.shards[procs[p].shard], procs[p].now,
                                cache.lifeWindow)} :
         /\ cache' = [cache EXCEPT !.shards[procs[p].shard] = r.shard]
         /\ status' = IF r.panic THEN "panic" ELSE "ready"
         /\ procs' = [procs EXCEPT ![p].pc = "push", ![p].wrote = @ \/ r.evicted]
    /\ UNCHANGED <<locks, calls, committed, qvars>>
    /\ UNCHANGED <<config, clock, ret, sets, clears, last>>

SetPush(p) ==
    /\ At(p, "Set", "push")
    /\ \E r \in {setPush(cache.shards[procs[p].shard], procs[p].now,
                         procs[p].hashedKey, procs[p].key, procs[p].entry)} :
         /\ cache' = [cache EXCEPT !.shards[procs[p].shard] = r.shard]
         /\ status' = IF r.panic THEN "panic" ELSE "ready"
         /\ procs' = [procs EXCEPT ![p].pc = "store", ![p].itemIndex = r.index,
                                   ![p].wrote = TRUE]
    /\ UNCHANGED <<locks, calls, committed, qvars>>
    /\ UNCHANGED <<config, clock, ret, sets, clears, last>>

SetStore(p) ==
    /\ At(p, "Set", "store")
    /\ cache' = [cache EXCEPT !.shards[procs[p].shard] =
                                 setStore(@, procs[p].hashedKey, procs[p].itemIndex)]
    /\ procs' = [procs EXCEPT ![p].pc = "unlock"]
    /\ UNCHANGED <<locks, calls, committed, qvars>>
    /\ UNCHANGED <<status, config, clock, ret, sets, clears, last>>

SetUnlock(p) ==
    /\ At(p, "Set", "unlock")
    /\ locks' = [locks EXCEPT ![procs[p].shard] = Unlock(@)]
    /\ Commit(p, procs[p].shard, Idle)
    /\ UNCHANGED <<calls, qvars, cvars>>

CallClear(p) ==
    /\ CanCall(p)
    /\ procs' = [procs EXCEPT ![p] = [Idle EXCEPT !.op = "Clear", !.pc = "lock"]]
    /\ calls' = calls + 1
    /\ UNCHANGED <<locks, committed, qvars, cvars>>

ClearLock(p) ==
    /\ At(p, "Clear", "lock")
    /\ CanLock(locks[procs[p].shard])
    /\ locks' = [locks EXCEPT ![procs[p].shard].writer = p]
    /\ procs' = [procs EXCEPT ![p].pc = "entries"]
    /\ UNCHANGED <<calls, committed, qvars, cvars>>

ClearEntries(p) ==
    /\ At(p, "Clear", "entries")
    /\ cache' = [cache EXCEPT !.shards[procs[p].shard].entries = BytesQueueClear(@)]
    /\ procs' = [procs EXCEPT ![p].pc = "hashmap"]
    /\ UNCHANGED <<locks, calls, committed, qvars>>
    /\ UNCHANGED <<status, config, clock, ret, sets, clears, last>>

ClearHashmap(p) ==
    /\ At(p, "Clear", "hashmap")
    /\ cache' = [cache EXCEPT !.shards[procs[p].shard].hashmap = EmptyMap]
    /\ procs' = [procs EXCEPT ![p].pc = "unlock"]
    /\ UNCHANGED <<locks, calls, committed, qvars>>
    /\ UNCHANGED <<status, config, clock, ret, sets, clears, last>>

\* the loop of Clear goes on to the next shard, if any
ClearUnlock(p) ==
    /\ At(p, "Clear", "unlock")
    /\ locks' = [locks EXCEPT ![procs[p].shard] = Unlock(@)]
    /\ Commit(p, procs[p].shard,
              IF procs[p].shard + 1 < config.Shards
              THEN [procs[p] EXCEPT !.shard = @ + 1, !.pc = "lock"]
              ELSE Idle)
    /\ UNCHANGED <<calls, qvars, cvars>>

\* a Set holds the write lock of shard s and has done some of its writes
\* to the shard, not all of them: the previous entry is tombstoned or the
\* head is popped and its hash deleted or the entry is pushed, and the
\* hashmap does not hold the new index yet
SetPartWay(s) ==
    \E w \in Procs :
        /\ locks[s].writer = w
        /\ procs[w].op = "Set" /\ procs[w].pc \in {"evict", "push", "store"}
        /\ procs[w].wrote

\* a Clear holds the write lock of shard s and has reset its queue, not
\* yet its hashmap
ClearPartWay(s) ==
    \E w \in Procs :
        locks[s].writer = w /\ procs[w].op = "Clear" /\ procs[w].pc = "hashmap"

Mutating(s) == SetPartWay(s) \/ ClearPartWay(s)

\* Iterate reads without a lock.  A read of a hashmap that a Set is in the
\* middle of writing is a data race: the runtime may stop the program
\* (fatal error: concurrent map iteration and map write) or the read may go
\* through
RacyRead(s) == IF SetPartWay(s) THEN {"ready", "crash"} ELSE {"ready"}

CallIterate(p) ==
    /\ CanCall(p)
    /\ procs' = [procs EXCEPT ![p] = [Idle EXCEPT !.op = "Iterate", !.pc = "range"]]
    /\ calls' = calls + 1
    /\ UNCHANGED <<locks, committed, qvars, cvars>>

\* the range over the hashmap of the shard gives a hash not yet visited;
\* when there is none the loop goes on to the next shard, if any
IterateRange(p) ==
    /\ At(p, "Iterate", "range")
    /\ LET s == procs[p].shard
           rest == DOMAIN cache.shards[s].hashmap \ procs[p].visited
       IN  /\ status' \in RacyRead(s)
           /\ IF rest # {}
              THEN \E h \in rest :
                     procs' = [procs EXCEPT ![p].hashedKey = h,
                                            ![p].visited = @ \cup {h},
                                            ![p].pc = "lookup"]
              ELSE IF s + 1 < config.Shards
              THEN procs' = [procs EXCEPT ![p].shard = s + 1, ![p].visited = {}]
              ELSE procs' = [procs EXCEPT ![p] = Idle]
    /\ UNCHANGED <<locks, calls, committed, qvars>>
    /\ UNCHANGED <<config, cache, clock, ret, sets, clears, last>>

\* getKeyAndValue and, when it gives no error, accept(key, value)
IterateLookup(p) ==
    /\ At(p, "Iterate", "lookup")
    /\ \E r \in {getKeyAndValue(cache.shards[procs[p].shard], procs[p].hashedKey)} :
         /\ procs' = [procs EXCEPT ![p].pc = "range",
                                   ![p].result = [found |-> ~r.err, value |-> r.value,
                                                  panic |-> r.panic],
                                   ![p].key = r.key]
         /\ status' \in IF r.panic THEN {"panic"} ELSE RacyRead(procs[p].shard)
    /\ UNCHANGED <<locks, calls, committed, qvars>>
    /\ UNCHANGED <<config, cache, clock, ret, sets, clears, last>>

ConcNext ==
    \/ Tick
    \/ \E p \in Procs : CallGet(p)
    \/ \E p \in Procs : GetRLock(p)
    \/ \E p \in Procs : GetIndex(p)
    \/ \E p \in Procs : GetEntry(p)
    \/ \E p \in Procs : GetRUnlock(p)
    \/ \E p \in Procs : CallSet(p)
    \/ \E p \in Procs : SetLock(p)
    \/ \E p \in Procs : SetReset(p)
    \/ \E p \in Procs : SetEvict(p)
    \/ \E p \in Procs : SetPush(p)
    \/ \E p \in Procs : SetStore(p)
    \/ \E p \in Procs : SetUnlock(p)
    \/ \E p \in Procs : CallClear(p)
    \/ \E p \in Procs : ClearLock(p)
    \/ \E p \in Procs : ClearEntries(p)
    \/ \E p \in Procs : ClearHashmap(p)
    \/ \E p \in Procs : ClearUnlock(p)
    \/ \E p \in Procs : CallIterate(p)
    \/ \E p \in Procs : IterateRange(p)
    \/ \E p \in Procs : IterateLookup(p)

SpecConc == ConcInit /\ [][ConcNext]_vars

\* --------------------------------------- claims on concurrent callers

\* C9: when Iterate runs concurrently with Set or Clear, no execution
\* reaches a crash state: Iterate never reads the hashmap or the queue of a
\* shard while a Set or a Clear holding that shard's write lock is part-way
\* through its writes, and the program is never stopped by such a read.
C9_IterateNeverRaces ==
    /\ status # "crash"
    /\ \A p \in Procs :
         procs[p].op = "Iterate" /\ procs[p].pc = "lookup" => ~Mutating(procs[p].shard)

\* C10: every Get behaves as if it ran atomically at some point between the
\* Sets of its shard: from its RLock to its RUnlock no Set on the shard is
\* part-way through its writes, and what it returns for k is what k had when
\* the Get was called or what a Set (or Clear) that finished since then left
\* for k.
C10_GetSetLinearizable ==
    \A p \in Procs :
        procs[p].op = "Get" =>
            /\ procs[p].pc \in {"index", "entry", "runlock"} => ~SetPartWay(procs[p].shard)
            /\ procs[p].pc = "runlock" => procs[p].result \in procs[p].allowed

\* a Get(k) that was called before a Set(k, new) finished, k holding an
\* older value, has read the new value
C10_Witness ==
    \E p \in Procs :
        /\ procs[p].op = "Get" /\ procs[p].pc = "runlock"
        /\ procs[p].result.found
        /\ procs[p].result = committed[procs[p].key]
        /\ \E old \in procs[p].allowed : old.found /\ old # procs[p].result

\* ------------------------------- concurrent Get, Set and Clear, fairly

\* a step of goroutine p inside a call of Get, Set or Clear
Step(p) ==
    \/ GetRLock(p) \/ GetIndex(p) \/ GetEntry(p) \/ GetRUnlock(p)
    \/ SetLock(p) \/ SetReset(p) \/ SetEvict(p) \/ SetPush(p) \/ SetStore(p)
    \/ SetUnlock(p)
    \/ ClearLock(p) \/ ClearEntries(p) \/ ClearHashmap(p) \/ ClearUnlock(p)

LiveNext ==
    \/ Tick
    \/ \E p \in Procs : CallGet(p)
    \/ \E p \in Procs : CallSet(p)
    \/ \E p \in Procs : CallClear(p)
    \/ \E p \in Procs : GetRLock(p)
    \/ \E p \in Procs : GetIndex(p)
    \/ \E p \in Procs : GetEntry(p)
    \/ \E p \in Procs : GetRUnlock(p)
    \/ \E p \in Procs : SetLock(p)
    \/ \E p \in Procs : SetReset(p)
    \/ \E p \in Procs : SetEvict(p)
    \/ \E p \in Procs : SetPush(p)
    \/ \E p \in Procs : SetStore(p)
    \/ \E p \in Procs : SetUnlock(p)
    \/ \E p \in Procs : ClearLock(p)
    \/ \E p \in Procs : ClearEntries(p)
    \/ \E p \in Procs : ClearHashmap(p)
    \/ \E p \in Procs : ClearUnlock(p)

\* p is inside a call and its next step is not blocked on a lock: this is
\* ENABLED <<Step(p)>>_vars
Runnable(p) ==
    /\ status = "ready"
    /\ procs[p].pc # "idle"
    /\ procs[p].pc = "rlock" => CanRLock(locks[procs[p].shard])
    /\ procs[p].pc = "lock" => CanLock(locks[procs[p].shard])

\* the step is a step of p inside its call: this is <<Step(p)>>_vars
Stepped(p) == procs[p].pc # "idle" /\ procs'[p].pc # procs[p].pc

\* weak fairness of Step(p), WF_vars(Step(p)), written out
Fair(p) == []<>(~Runnable(p)) \/ []<><<Stepped(p)>>_vars

\* the scheduler is fair to every goroutine that is inside a call
SpecLive == ConcInit /\ [][LiveNext]_vars /\ \A p \in Procs : Fair(p)

\* the shards whose lock p holds, for writing or for reading
LocksHeld(p) == {s \in DOMAIN locks : locks[s].writer = p \/ p \in locks[s].readers}

\* no goroutine holds the locks of two shards, and none holds a lock
\* outside a call
OneLockAtATime ==
    \A p \in Procs :
        /\ Cardinality(LocksHeld(p)) <= 1
        /\ procs[p].pc = "idle" => LocksHeld(p) = {}

\* C11: no Get, Set or Clear holds the locks of two shards at once, every
\* lock taken is given back before the call returns, and under fair
\* scheduling every call of Get, Set or Clear eventually returns.
C11_NoDeadlock ==
    /\ []OneLockAtATime
    /\ \A p \in Procs : (procs[p].pc # "idle") ~> (procs[p].pc = "idle")

\* a Clear holds the lock of the second shard while a Set that holds the
\* lock of the first is under way and a third call waits for a lock
C11_Witness ==
    \E c, w, g \in Procs :
        /\ config.Shards = 2
        /\ procs[c].op = "Clear" /\ locks[1].writer = c
        /\ procs[w].op = "Set" /\ locks[0].writer = w
        /\ procs[g].pc \in {"lock", "rlock"}

\* ------------------------------------------ more claims on the queue

\* head, tail, rightMargin, count and capacity of a queue
Geometry(q) == <<q.head, q.tail, q.rightMargin, q.count, q.capacity>>

\* C12: Pop and Peek on an empty queue return the EmptyQueue error and leave
\* head, tail, rightMargin, count and capacity as they are; Get(handle) with
\* handle <= 0 returns the InvalidIndex error and no data; Peek on a queue
\* that is not empty returns the blob the next Pop returns.
C12_QueueErrorOutcomes ==
    qstatus = "ok" =>
        /\ queue.count = 0 =>
              /\ BytesQueuePop(queue).err = "Empty queue"
              /\ ~BytesQueuePop(queue).panic
              /\ Geometry(BytesQueuePop(queue).q) = Geometry(queue)
              /\ BytesQueuePeek(queue).err = "Empty queue"
              /\ ~BytesQueuePeek(queue).panic
        /\ \A handle \in {0 - 1, 0} :
              /\ BytesQueueGet(queue, handle).err # ""
              /\ BytesQueueGet(queue, handle).data = <<>>
              /\ ~BytesQueueGet(queue, handle).panic
        /\ queue.count > 0 =>
              /\ BytesQueuePeek(queue).err = "" /\ BytesQueuePop(queue).err = ""
              /\ ~BytesQueuePeek(queue).panic /\ ~BytesQueuePop(queue).panic
              /\ BytesQueuePeek(queue).data = BytesQueuePop(queue).data

\* ------------------------------------------ more claims on the cache

\* C13: with no writer at work, Iterate calls accept once for each hashmap
\* entry of each shard, so as many times as Size() says, and the (key,
\* value) pairs it passes are the pairs (k, v) for which Get(k) returns v.
C13_IterateVisitsContents ==
    status = "ready" =>
        /\ \A l \in IterateLookups(cache) : ~l.r.panic /\ ~l.r.err
        /\ Cardinality(IterateAccepts(cache)) = Size(cache)
        /\ {<<l.r.key, l.r.value>> : l \in IterateAccepts(cache)}
               = {<<k, GetNow(k).value>> : k \in {x \in Keys : GetNow(x).found}}

\* both keys are in the cache, one of them overwritten, after an eviction
C13_Witness ==
    /\ status = "ready"
    /\ Size(cache) = 2
    /\ Cardinality(IterateAccepts(cache)) = 2
    /\ ret.op = "Set" /\ ret.evicted
    /\ \A k \in Keys : GetNow(k).found

\* C14: every handle Push returns is at least 1, whatever Pushes, Pops
\* (evictions), Clears, wraps and growth came before: no hashmap value is 0,
\* the index of every Set is at least 1, and a hashmap lookup gives 0 exactly
\* for the hashes that have no entry.
C14_HandleZeroNeverLive ==
    status = "ready" =>
        /\ \A k \in Keys : last[k].set => last[k].index >= leftMarginIndex
        /\ \A i \in DOMAIN cache.shards :
              /\ \A h \in DOMAIN cache.shards[i].hashmap :
                    cache.shards[i].hashmap[h] >= leftMarginIndex
              /\ \A k \in Keys :
                    MapGet(cache.shards[i].hashmap, Sum64(config, k)) = 0
                        <=> Sum64(config, k) \notin DOMAIN cache.shards[i].hashmap

\* a Set has wrapped to the left margin: its entry is at handle 1, in front
\* of the head
C14_Witness ==
    /\ status = "ready" /\ ret.op = "Set"
    /\ last[ret.key].index = leftMarginIndex
    /\ cache.shards[ret.shard].entries.tail < cache.shards[ret.shard].entries.head
    /\ MapGet(cache.shards[ret.shard].hashmap, Sum64(config, ret.key)) = leftMarginIndex

\* on the queue alone: every Push that returned gave a handle >= 1
PushHandlesPositive ==
    \A i \in 1..Len(pushed) : qstatus = "ok" => pushed[i].index >= leftMarginIndex

\* the timestamp of the blob at the head of the queue of shard s
HeadTimestamp(s) ==
    readTimestampFromEntry(BytesQueuePeek(cache.shards[s].entries).data).v

\* C15: a Set pops at most one blob, and only from the queue of the shard
\* its key routes to; it pops the head blob if and only if the queue is not
\* empty when Set is called and now - head.timestamp > lifeWindow (at an age
\* equal to the life window the blob stays); no entry of age <= lifeWindow
\* is popped by a Set.
C15_OneStrictEvictionPerSet ==
    [][\A key \in Keys :
          (status = "ready" /\ SetStep(key)) =>
              /\ \A i \in DOMAIN cache.shards \ {ShardOf(key)} :
                    cache'.shards[i] = cache.shards[i]
              /\ ret'.evicted <=>
                    /\ cache.shards[ShardOf(key)].entries.count > 0
                    /\ clock - HeadTimestamp(ShardOf(key)) > cache.lifeWindow
              /\ ret'.evicted => ret'.evictedIndex = cache.shards[ShardOf(key)].entries.head
              /\ cache'.shards[ShardOf(key)].entries.count
                     >= cache.shards[ShardOf(key)].entries.count
              /\ \A k \in Keys :
                    (last'[k].popped /\ ~last[k].popped)
                        => clock - last[k].time > cache.lifeWindow]_vars

\* a Set found at the head an entry exactly as old as the life window, and
\* left it in the queue
C15_Witness ==
    /\ status = "ready" /\ ret.op = "Set" /\ ~ret.evicted
    /\ cache.shards[ret.shard].entries.count >= 2
    /\ clock - HeadTimestamp(ret.shard) = cache.lifeWindow
    /\ \E k \in Keys \ {ret.key} :
          /\ last[k].set /\ ~last[k].popped /\ last[k].shard = ret.shard
          /\ last[k].index = cache.shards[ret.shard].entries.head

\* the hash field of the blob that Set(key, ...) finds at the head of the
\* queue once it has reset the previous entry of key's hash
HeadHashAtEviction(key) ==
    readHashFromEntry(
        BytesQueuePeek(setResetPrevious(cache.shards[ShardOf(key)],
                                        Sum64(config, key)).shard.entries).data).v

\* the blob at the head of key's shard is the current entry of no key once
\* Set(key, ...) has reset the previous entry of key's hash: it is a
\* tombstone or a filler
HeadIsTombstone(key) ==
    ~\E k \in Keys :
        /\ Sum64(config, k) # Sum64(config, key)
        /\ Current(k)
        /\ last[k].shard = ShardOf(key)
        /\ last[k].index = cache.shards[ShardOf(key)].entries.head

\* C16: when the blob popped by the eviction step of a Set has a zeroed hash
\* field (a tombstone or a filler), the hashmap loses no entry: every hash it
\* held is still there, with its index unless it is the hash being Set.
\* This holds whatever the hasher gives, 0 included.
C16_TombstoneEvictionKeepsMap ==
    [][\A key \in Keys :
          (/\ status = "ready" /\ SetStep(key)
           /\ ret'.evicted
           /\ HeadIsTombstone(key)
           /\ HeadHashAtEviction(key) = 0)
          => \A h \in DOMAIN cache.shards[ShardOf(key)].hashmap :
                /\ h \in DOMAIN cache'.shards[ShardOf(key)].hashmap
                /\ h # Sum64(config, key) =>
                      cache'.shards[ShardOf(key)].hashmap[h]
                          = cache.shards[ShardOf(key)].hashmap[h]]_vars

\* ------------------------------------------------ map and queue

\* index lies in the region of the queue that holds the blobs pushed and
\* not yet popped
InLiveRegion(q, index) ==
    IF q.tail >= q.head
    THEN q.head <= index /\ index < q.tail
    ELSE \/ q.head <= index /\ index < q.rightMargin
         \/ leftMarginIndex <= index /\ index < q.tail

\* C17: between calls, every entry (h -> idx) of a shard's hashmap points
\* into the live region of that shard's queue, at the blob of the most
\* recent Set whose key hashes to h; that blob has not been popped, it
\* holds what that Set wrapped, and the hash in it is h (or zero)
C17_MapQueueConsistency ==
    status = "ready" =>
        \A s \in DOMAIN cache.shards :
            \A h \in DOMAIN cache.shards[s].hashmap :
                \E idx \in {cache.shards[s].hashmap[h]} :
                \E g \in {BytesQueueGet(cache.shards[s].entries, idx)} :
                    /\ g.err = "" /\ ~g.panic
                    /\ InLiveRegion(cache.shards[s].entries, idx)
                    /\ readHashFromEntry(g.data).v \in {h, 0}
                    /\ \E k \in Keys :
                          /\ Sum64(config, k) = h
                          /\ Current(k)
                          /\ last[k].shard = s
                          /\ last[k].index = idx
                          /\ g.data = wrapEntry(last[k].time, h, k, last[k].value)

\* a Set has just evicted the oldest entry of a shard whose queue is
\* wrapped and whose hashmap holds both keys
C17_Witness ==
    /\ status = "ready"
    /\ ret.op = "Set" /\ ret.evicted
    /\ Cardinality(DOMAIN cache.shards[ret.shard].hashmap) = 2
    /\ cache.shards[ret.shard].entries.tail < cache.shards[ret.shard].entries.head

\* ------------------------------------------------ eviction order

\* the blobs of a queue in the order Pop hands them out
RECURSIVE QueueContents(_)

\* r is what Pop returned: its blob, then the blobs of the queue it left
PoppedThenRest(r) ==
    IF r.panic THEN <<>> ELSE <<r.data>> \o QueueContents(r.q)

QueueContents(q) ==
    IF q.count = 0 THEN <<>> ELSE PoppedThenRest(BytesQueuePop(q))

\* a blob that a Set wrapped (a growth filler is all zeroes)
IsEntry(data) == Len(data) > headersSizeInBytes /\ data[Len(data)] # 0

\* the number of the Set that wrapped the blob: Set number n stores Value(n)
Arrival(data) == data[Len(data)] - 48

\* C18: a Set that evicts an entry evicts the earliest-set entry still in
\* the queue of the shard: no entry that was Set earlier is in that queue
C18_EvictionFifoByArrival ==
    [][\A key \in Keys :
          (status = "ready" /\ SetStep(key) /\ ret'.evicted) =>
              \A c \in {QueueContents(cache.shards[ShardOf(key)].entries)} :
                  (c # <<>> /\ IsEntry(c[1])) =>
                      \A i \in 1..Len(c) :
                          IsEntry(c[i]) => Arrival(c[1]) <= Arrival(c[i])]_vars

\* ------------------------------------------------ handles

\* the i-th Push returned a handle and no later Pop has taken its blob
Unpopped(i) ==
    ~\E j \in 1..Len(popped) :
        /\ ~popped[j].filler
        /\ popped[j].index = pushed[i].index
        /\ popped[j].after >= i

\* the bytes [h, h + 4 + len) of the i-th Push
BlobRange(i) ==
    pushed[i].index .. (pushed[i].index + headerEntrySize + pushed[i].len - 1)

\* C19: in a run of Push and Pop calls, growth and wrap-around included,
\* Get(h) of every blob pushed and not yet popped returns the bytes that
\* were pushed, and no two such blobs share a handle or overlap
C19_HandlesValidUntilPopped ==
    (qclears = 0 /\ qstatus = "ok") =>
        \A i \in 1..Len(pushed) :
            Unpopped(i) =>
                /\ GetReturnsPushed(i)
                /\ \A j \in 1..Len(pushed) :
                      (j # i /\ Unpopped(j)) => BlobRange(i) \cap BlobRange(j) = {}

\* ------------------------------------------------ geometry

\* head, tail and rightMargin lie within the array
WithinArray(q) ==
    /\ leftMarginIndex <= q.head
    /\ leftMarginIndex <= q.tail /\ q.tail <= q.capacity
    /\ q.rightMargin <= q.capacity

\* the live region is [head, tail); the queue is empty exactly when head
\* and tail are at the left margin
Linear(q) ==
    /\ q.tail >= q.head
    /\ q.rightMargin = q.tail
    /\ q.count = 0 <=> (q.head = leftMarginIndex /\ q.tail = leftMarginIndex)

\* the live region is [head, rightMargin) then [leftMarginIndex, tail)
Wrapped(q) ==
    /\ q.tail < q.head /\ q.head <= q.rightMargin
    /\ q.head - q.tail >= minimumEmptyBlobSize

\* Len() is the number of Pops that succeed before Pop returns EmptyQueue
LenCountsPops(q) == BytesQueueLen(q) = Len(QueueContents(q))

\* C20: after every Push, Pop and Clear, growth included, head, tail and
\* rightMargin lie within the array, the queue is linear or wrapped with a
\* gap of at least 36 bytes, and Len() is the number of Pops that succeed
\* before the queue is empty; the capacity never decreases
C20_QueueGeometry ==
    /\ [](qstatus = "ok" =>
             /\ WithinArray(queue)
             /\ Linear(queue) \/ Wrapped(queue)
             /\ LenCountsPops(queue))
    /\ [][queue'.capacity >= queue.capacity]_vars


====
